---- MODULE Spec2Model ----
(***************************************************************************)
(* Ticket lifecycle reconciliation of the NFT e-ticketing backend:         *)
(* routes/ticketRoutes.js (verify, mint-success, transfer-update),         *)
(* routes/eventRoutes.js (purchase-initiate) and the on-chain ownership    *)
(* lookup of services/solanaService.js.                                    *)
(*                                                                         *)
(* Every HTTP handler is a sequence of awaited store operations.  A        *)
(* request slot p carries the handler's position (pc) and its locals; one  *)
(* action is one awaited store or ledger operation together with the       *)
(* synchronous code that follows it up to the next await or the response.  *)
(* Spec runs one request at a time (serialized calls); SpecMintRace,       *)
(* SpecMintFaults, SpecPurchaseRace and SpecVerifyRace let two requests    *)
(* interleave between their store operations; SpecWatcher is the ledger    *)
(* listener of listeners/solanaListener.js.                                *)
(*                                                                         *)
(* Columns that no handler ever reads back (qr_code_data, qr_code_url,     *)
(* original_purchase_date, original_purchaser_wallet_address, updated_at,  *)
(* payment_method, currency) are left out of the rows.                     *)
(***************************************************************************)
EXTENDS Integers, Sequences, FiniteSets, TLC

\* ---------------------------------------------------------------- bounds
MaxRequests == 3      \* requests received in one serialized behaviour
MaxGateRequests == 4  \* requests received in one behaviour at the gate
MaxRaceRequests == 2  \* requests received in one interleaved behaviour
MaxTotal == 2         \* largest total_tickets an Event is created with
MaxClock == 2         \* readings of the wall clock: 1..MaxClock
MaxLosses == 2        \* closes of the listener's socket that are counted

\* ------------------------------------------------------------ input sets
None == "none"        \* an absent / falsy request field, a NULL column

EventIds == {"e1", "e2"}                 \* rows of table events
UnknownEvent == "e0"                     \* an id that names no Event
Assets == {"a1", "a2"}
Wallets == {"wX", "wY", "wZ"}
Signatures == {"s1"}
Quantities == {0, 1, 2}
TxIds == {1}                             \* transaction ids a caller may name
Procs == {1, 2}

Times == 1..MaxClock                     \* new Date(); 0 is a NULL date

PriceSol(e) == IF e = "e1" THEN 2 ELSE 3

\* request bodies: every well-formed body, and for each required field one
\* body that lacks it
MintInputs ==
    ((EventIds \cup {UnknownEvent}) \X Assets \X Wallets \X Signatures
        \X ({0} \cup TxIds))
    \cup {<<None, "a1", "wX", "s1", 0>>, <<"e1", None, "wX", "s1", 0>>,
          <<"e1", "a1", None, "s1", 0>>, <<"e1", "a1", "wX", None, 0>>}

\* the bodies of interleaved mint-success calls: the fields the store
\* operations depend on vary, the owner does not
RaceMintInputs == EventIds \X Assets \X {"wX"} \X Signatures \X ({0} \cup TxIds)

VerifyInputs ==
    (Assets \X (Wallets \cup {None})) \cup {<<None, "wX">>, <<None, None>>}

TransferInputs ==
    (Assets \X Wallets \X Signatures)
    \cup {<<None, "wX", "s1">>, <<"a1", None, "s1">>, <<"a1", "wX", None>>}

PurchaseInputs ==
    ((EventIds \cup {UnknownEvent}) \X {"wX"} \X Quantities)
    \cup {<<"e1", None, 1>>}

\* ----------------------------------------------------------------- state
VARIABLES
    events,        \* event_id -> [total_tickets, available_tickets]
    tickets,       \* table tickets; ticket_id is the index of the row
    transactions,  \* table transactions; transaction_id is the index
    req,           \* request slot -> handler position, locals and response
    nreq,          \* requests received so far
    limit,         \* requests this behaviour may receive
    admitted,      \* assets for which POST /verify has answered 200
    sock,          \* the listener's WebSocket (module variable ws)
    timers,        \* pending reconnect timers of the listener
    wat,           \* the listener's onmessage call: position and locals
    losses         \* closes of the listener's socket so far (saturating)

wvars == <<sock, timers, wat, losses>>

vars == <<events, tickets, transactions, req, nreq, limit, admitted,
          sock, timers, wat, losses>>

NoRow == [event_id |-> None, nft_mint_address |-> None,
          owner_wallet_address |-> None, seat_info |-> <<>>,
          status |-> None, is_used |-> FALSE, last_transfer_date |-> 0]

NoEvent == [total_tickets |-> 0, available_tickets |-> 0, found |-> FALSE]

Snapshot == [tickets |-> tickets, events |-> events,
             transactions |-> transactions]

IdleReq == [pc |-> "idle", op |-> None, eventId |-> None, asset |-> None,
            owner |-> None, sig |-> None, txid |-> 0, qty |-> 0,
            tid |-> 0, row |-> NoRow, ev |-> NoEvent, addr |-> None,
            live |-> None, rpc |-> None, code |-> 0, msg |-> None,
            newtid |-> 0, wasAdmitted |-> FALSE, fault |-> None,
            pre |-> [tickets |-> <<>>, events |-> <<>>,
                     transactions |-> <<>>]]

NoTx == [kind |-> None, instrs |-> <<>>]

NoBody == [eventId |-> None, asset |-> None, owner |-> None, sig |-> None]

IdleWat == [pc |-> "idle", n |-> [parsable |-> TRUE, hasValue |-> FALSE,
                                   logs |-> None, sig |-> None],
            tx |-> NoTx, http |-> None, posts |-> 0, body |-> NoBody,
            outcome |-> None,
            prev |-> None]   \* how the handler before this one ended

\* -------------------------------------------------------- store helpers
\* .eq('nft_mint_address', a): ids of the matching rows
TicketsByAsset(tk, a) == {i \in 1..Len(tk) : tk[i].nft_mint_address = a}

\* .single(): data is the row when exactly one row matches, otherwise data
\* is null and error.code is PGRST116
SingleId(tk, a) ==
    IF Cardinality(TicketsByAsset(tk, a)) = 1
    THEN CHOOSE i \in TicketsByAsset(tk, a) : TRUE
    ELSE 0

\* unique index of tickets.nft_mint_address (the Ticket Store's schema)
UniqueViolation(tk, a) == TicketsByAsset(tk, a) # {}

\* column default of tickets.is_used
DefaultIsUsed == FALSE

\* `Ticket #${n}`
SeatLabel(n) == <<"Ticket #", n>>

\* numbering that starts at 0
SeatInfoFromZero(ev) == SeatLabel(ev.total_tickets - ev.available_tickets)

\* seatInfo of mint-success
SeatInfo(ev) == SeatLabel(ev.total_tickets - ev.available_tickets + 1)

\* the response and the end of the handler
Respond(r, code, msg) == [r EXCEPT !.pc = "done", !.code = code, !.msg = msg]

\* a slot is free for the next request
Free(p) == req[p].pc = "idle"

\* ------------------------------------------------------------------ Init
InitStore ==
    /\ \E n \in 1..MaxTotal :
           events = [e \in EventIds |->
                        IF e = "e1"
                        THEN [total_tickets |-> n, available_tickets |-> n]
                        ELSE [total_tickets |-> 1, available_tickets |-> 1]]
    /\ tickets = <<>>
    /\ transactions = <<>>
    /\ req = [p \in Procs |-> IdleReq]
    /\ nreq = 0
    /\ admitted = {}
    /\ sock = "connecting"
    /\ timers = 0
    /\ wat = IdleWat
    /\ losses = 0

Init == InitStore /\ limit = MaxRequests

InitGate == InitStore /\ limit = MaxGateRequests

InitRace == InitStore /\ limit = MaxRaceRequests

\* the store after mint-success has recorded asset a1 of event e1 for wX
InitSold ==
    /\ \E n \in 1..MaxTotal :
           events = [e \in EventIds |->
                        IF e = "e1"
                        THEN [total_tickets |-> n, available_tickets |-> n - 1]
                        ELSE [total_tickets |-> 1, available_tickets |-> 1]]
    /\ tickets = <<[event_id |-> "e1", nft_mint_address |-> "a1",
                    owner_wallet_address |-> "wX", seat_info |-> SeatLabel(1),
                    status |-> "purchased", is_used |-> DefaultIsUsed,
                    last_transfer_date |-> 0]>>
    /\ transactions = <<>>
    /\ req = [p \in Procs |-> IdleReq]
    /\ nreq = 0
    /\ admitted = {}
    /\ sock = "connecting"
    /\ timers = 0
    /\ wat = IdleWat
    /\ losses = 0
    /\ limit = MaxRaceRequests

\* ------------------------------------------- POST /tickets/mint-success
\* the signature is not asked for
MintFieldsMissingNoSig(e, a, w, s) == e = None \/ a = None \/ w = None

\* !eventId || !nftMintAddress || !ownerWalletAddress ||
\* !solanaTransactionSignature
MintFieldsMissing(e, a, w, s) ==
    e = None \/ a = None \/ w = None \/ s = None

\* the request arrives; a missing field is answered at once
MintReceive(p, e, a, w, s, t) ==
    /\ Free(p)
    /\ nreq < limit
    /\ nreq' = nreq + 1
    /\ LET r == [IdleReq EXCEPT !.op = "mint", !.eventId = e, !.asset = a,
                                !.owner = w, !.sig = s, !.txid = t,
                                !.pre = Snapshot]
       IN req' = [req EXCEPT ![p] =
              IF MintFieldsMissing(e, a, w, s)
              THEN Respond(r, 400, "missing fields")
              ELSE [r EXCEPT !.pc = "m_check"]]
    /\ UNCHANGED <<events, tickets, transactions, limit, admitted, wvars>>

\* a pre-check that never finds the ticket
AlreadyProcessedNever(id) == FALSE

\* if (existingTicket)
AlreadyProcessed(id) == id # 0

\* select ticket_id ... .single(): an existing ticket ends the call
MintCheck(p) ==
    /\ req[p].pc = "m_check"
    /\ LET id == SingleId(tickets, req[p].asset)
       IN req' = [req EXCEPT ![p] =
              IF AlreadyProcessed(id)
              THEN Respond([@ EXCEPT !.tid = id], 200, "already processed")
              ELSE [@ EXCEPT !.pc = "m_event"]]
    /\ UNCHANGED <<events, tickets, transactions, nreq, limit, admitted, wvars>>

\* the row of events with event_id = e, as .single() returns it
ReadEvent(e) ==
    IF e \in DOMAIN events
    THEN [total_tickets |-> events[e].total_tickets,
          available_tickets |-> events[e].available_tickets, found |-> TRUE]
    ELSE NoEvent

\* an event check that lets every id through
EventMissingNever(ev) == FALSE

\* if (eventError || !event)
EventMissing(ev) == ~ev.found

\* select name, total_tickets, available_tickets ... .single()
MintEvent(p) ==
    /\ req[p].pc = "m_event"
    /\ LET ev == ReadEvent(req[p].eventId)
       IN req' = [req EXCEPT ![p] =
              IF EventMissing(ev)
              THEN Respond(@, 404, "event not found")
              ELSE [@ EXCEPT !.pc = "m_insert", !.ev = ev]]
    /\ UNCHANGED <<events, tickets, transactions, nreq, limit, admitted, wvars>>

\* the row mint-success inserts
NewTicket(r) ==
    [event_id |-> r.eventId, nft_mint_address |-> r.asset,
     owner_wallet_address |-> r.owner, seat_info |-> SeatInfo(r.ev),
     status |-> "purchased", is_used |-> DefaultIsUsed,
     last_transfer_date |-> 0]

\* the insert error is logged and the call goes on to the counter
InsertRefusedGoesOn(r) == [r EXCEPT !.pc = "m_update"]

\* if (insertError) return res.status(500)
InsertRefused(r) == Respond(r, 500, "insert failed")

\* insert into tickets; an insert error is answered with 500
MintInsert(p) ==
    /\ req[p].pc = "m_insert"
    /\ IF UniqueViolation(tickets, req[p].asset)
       THEN /\ req' = [req EXCEPT ![p] = InsertRefused(@)]
            /\ UNCHANGED tickets
       ELSE /\ tickets' = Append(tickets, NewTicket(req[p]))
            /\ req' = [req EXCEPT ![p] = [@ EXCEPT !.pc = "m_update",
                                             !.newtid = Len(tickets) + 1]]
    /\ UNCHANGED <<events, transactions, nreq, limit, admitted, wvars>>

\* the value mint-success writes to available_tickets
DecrementedCount(ev) == ev.available_tickets - 1

\* the counter is decremented in the store, from the value it holds now
CounterWrittenInPlace(row, ev) ==
    [row EXCEPT !.available_tickets = @ - 1]

\* the total is taken down with the available count
CounterWrittenWithTotal(row, ev) ==
    [row EXCEPT !.available_tickets = DecrementedCount(ev),
                !.total_tickets = ev.total_tickets - 1]

\* .update({ available_tickets: event.available_tickets - 1 })
CounterWritten(row, ev) ==
    [row EXCEPT !.available_tickets = DecrementedCount(ev)]

\* update events set available_tickets = (value read earlier) - 1
MintUpdateEvent(p) ==
    /\ req[p].pc = "m_update"
    /\ events' = [e \in DOMAIN events |->
                      IF e = req[p].eventId
                      THEN CounterWritten(events[e], req[p].ev)
                      ELSE events[e]]
    /\ req' = [req EXCEPT ![p] =
           IF @.txid # 0
           THEN [@ EXCEPT !.pc = "m_tx"]
           ELSE Respond(@, 200, "recorded")]
    /\ UNCHANGED <<tickets, transactions, nreq, limit, admitted, wvars>>

\* the link to the ticket is not written
SettledUnlinked(tx, sig, tid) ==
    [tx EXCEPT !.status = "successful", !.solana_transaction_signature = sig]

\* the columns mint-success writes to the transaction
Settled(tx, sig, tid) ==
    [tx EXCEPT !.status = "successful", !.solana_transaction_signature = sig,
               !.ticket_id = tid]

\* update transactions ... .eq('transaction_id', transactionId)
MintUpdateTransaction(p) ==
    /\ req[p].pc = "m_tx"
    /\ transactions' =
           [i \in 1..Len(transactions) |->
               IF i = req[p].txid
               THEN Settled(transactions[i], req[p].sig, req[p].newtid)
               ELSE transactions[i]]
    /\ req' = [req EXCEPT ![p] = Respond(@, 200, "recorded")]
    /\ UNCHANGED <<events, tickets, nreq, limit, admitted, wvars>>

\* the transaction update returns an error: it is logged and the call goes
\* on to its success response
MintUpdateTransactionFail(p) ==
    /\ req[p].pc = "m_tx"
    /\ req' = [req EXCEPT ![p] =
           Respond([@ EXCEPT !.fault = "tx_update"], 200, "recorded")]
    /\ UNCHANGED <<events, tickets, transactions, nreq, limit, admitted, wvars>>

\* the pre-check returns an error: checkError is never looked at, data is
\* null and the call goes on as if no ticket existed
MintCheckFail(p) ==
    /\ req[p].pc = "m_check"
    /\ req' = [req EXCEPT ![p] = [@ EXCEPT !.pc = "m_event",
                                           !.fault = "check"]]
    /\ UNCHANGED <<events, tickets, transactions, nreq, limit, admitted, wvars>>

\* the event read returns an error: answered like an unknown event
MintEventFail(p) ==
    /\ req[p].pc = "m_event"
    /\ req' = [req EXCEPT ![p] =
           Respond([@ EXCEPT !.fault = "event"], 404, "event not found")]
    /\ UNCHANGED <<events, tickets, transactions, nreq, limit, admitted, wvars>>

\* the insert returns an error: no row is written
MintInsertFail(p) ==
    /\ req[p].pc = "m_insert"
    /\ req' = [req EXCEPT ![p] = InsertRefused([@ EXCEPT !.fault = "insert"])]
    /\ UNCHANGED <<events, tickets, transactions, nreq, limit, admitted, wvars>>

\* the counter update returns an error: it is logged and the call goes on
MintUpdateEventFail(p) ==
    /\ req[p].pc = "m_update"
    /\ req' = [req EXCEPT ![p] =
           IF @.txid # 0
           THEN [@ EXCEPT !.pc = "m_tx", !.fault = "counter"]
           ELSE Respond([@ EXCEPT !.fault = "counter"], 200, "recorded")]
    /\ UNCHANGED <<events, tickets, transactions, nreq, limit, admitted, wvars>>

MintFail(p) ==
    \/ MintCheckFail(p)
    \/ MintEventFail(p)
    \/ MintInsertFail(p)
    \/ MintUpdateEventFail(p)
    \/ MintUpdateTransactionFail(p)

\* res.json(...) has been sent and the handler's frame is gone
Reply(p) ==
    /\ req[p].pc = "done"
    /\ req' = [req EXCEPT ![p] = IdleReq]
    /\ UNCHANGED <<events, tickets, transactions, nreq, limit, admitted, wvars>>

MintStep(p) ==
    \/ \E i \in MintInputs : MintReceive(p, i[1], i[2], i[3], i[4], i[5])
    \/ MintCheck(p)
    \/ MintEvent(p)
    \/ MintInsert(p)
    \/ MintUpdateEvent(p)
    \/ MintUpdateTransaction(p)

\* ------------------------------------------------- POST /tickets/verify
VerifyReceive(p, a, w) ==
    /\ Free(p)
    /\ nreq < limit
    /\ nreq' = nreq + 1
    /\ LET r == [IdleReq EXCEPT !.op = "verify", !.asset = a, !.owner = w,
                                !.wasAdmitted = (a \in admitted),
                                !.pre = Snapshot]
       IN req' = [req EXCEPT ![p] =
              IF a = None
              THEN Respond(r, 400, "mint address required")
              ELSE [r EXCEPT !.pc = "v_read"]]
    /\ UNCHANGED <<events, tickets, transactions, limit, admitted, wvars>>

\* the stored owner is preferred to the asserted one
AddressToVerifyStoredFirst(asserted, row) ==
    IF row.owner_wallet_address # None THEN row.owner_wallet_address
    ELSE asserted

\* addressToVerify = ownerWalletAddress || ticket.owner_wallet_address
AddressToVerify(asserted, row) ==
    IF asserted # None THEN asserted ELSE row.owner_wallet_address

\* the used flag is not looked at
AlreadyUsedNever(row) == FALSE

\* if (ticket.is_used)
AlreadyUsed(row) == row.is_used

\* select * ... .single(), then the used check and the address to verify
VerifyRead(p) ==
    /\ req[p].pc = "v_read"
    /\ LET id == SingleId(tickets, req[p].asset)
           row == IF id = 0 THEN NoRow ELSE tickets[id]
           addr == AddressToVerify(req[p].owner, row)
       IN req' = [req EXCEPT ![p] =
              IF id = 0 THEN Respond(@, 404, "ticket not found")
              ELSE IF AlreadyUsed(row)
                   THEN Respond([@ EXCEPT !.tid = id, !.row = row],
                                409, "already used")
              ELSE IF addr = None
                   THEN Respond([@ EXCEPT !.tid = id, !.row = row],
                                500, "missing owner")
              ELSE [@ EXCEPT !.pc = "v_chain", !.tid = id, !.row = row,
                             !.addr = addr]]
    /\ UNCHANGED <<events, tickets, transactions, nreq, limit, admitted, wvars>>

\* what the ledger answers: the current owner, no asset or no owner (None),
\* or a failed call
ChainOutcomes ==
    {<<"ok", w>> : w \in Wallets \cup {None}} \cup {<<"error", None>>}

\* a lookup that fails open
VerifyTicketOwnershipFailOpen(rpc, live, expected) ==
    IF rpc = "error" THEN TRUE
    ELSE IF live = None THEN TRUE
    ELSE live = expected

\* solanaService.verifyTicketOwnershipOnChain
VerifyTicketOwnershipOnChain(rpc, live, expected) ==
    IF rpc = "error" THEN FALSE
    ELSE IF live = None THEN FALSE
    ELSE live = expected

\* the live ownership lookup; a mismatch is answered with 403
VerifyChain(p, rpc, live) ==
    /\ req[p].pc = "v_chain"
    /\ req' = [req EXCEPT ![p] =
           IF ~VerifyTicketOwnershipOnChain(rpc, live, @.addr)
           THEN Respond([@ EXCEPT !.rpc = rpc, !.live = live],
                        403, "ownership mismatch")
           ELSE [@ EXCEPT !.pc = "v_update", !.rpc = rpc, !.live = live]]
    /\ UNCHANGED <<events, tickets, transactions, nreq, limit, admitted, wvars>>

\* only the status column is written
MarkUsedStatusOnly(row) == [row EXCEPT !.status = "used"]

\* the columns POST /verify writes
MarkUsed(row) == [row EXCEPT !.is_used = TRUE, !.status = "used"]

\* update tickets set is_used = true, status = 'used' where ticket_id = ...
VerifyUpdate(p) ==
    /\ req[p].pc = "v_update"
    /\ tickets' = [tickets EXCEPT ![req[p].tid] = MarkUsed(@)]
    /\ req' = [req EXCEPT ![p] = Respond(@, 200, "verified")]
    /\ admitted' = admitted \cup {req[p].asset}
    /\ UNCHANGED <<events, transactions, nreq, limit, wvars>>

VerifyStep(p) ==
    \/ \E i \in VerifyInputs : VerifyReceive(p, i[1], i[2])
    \/ VerifyRead(p)
    \/ \E o \in ChainOutcomes : VerifyChain(p, o[1], o[2])
    \/ VerifyUpdate(p)

\* ---------------------------------------- POST /tickets/transfer-update
TransferReceive(p, a, w, s) ==
    /\ Free(p)
    /\ nreq < limit
    /\ nreq' = nreq + 1
    /\ LET r == [IdleReq EXCEPT !.op = "transfer", !.asset = a, !.owner = w,
                                !.sig = s, !.pre = Snapshot]
       IN req' = [req EXCEPT ![p] =
              IF a = None \/ w = None \/ s = None
              THEN Respond(r, 400, "missing fields")
              ELSE [r EXCEPT !.pc = "t_read"]]
    /\ UNCHANGED <<events, tickets, transactions, limit, admitted, wvars>>

\* the equality short-cut is missing
OwnerUpToDateNever(row, newOwner) == FALSE

\* ticket.owner_wallet_address === newOwnerWalletAddress
OwnerUpToDate(row, newOwner) == row.owner_wallet_address = newOwner

\* select ticket_id, owner_wallet_address ... .single()
TransferRead(p) ==
    /\ req[p].pc = "t_read"
    /\ LET id == SingleId(tickets, req[p].asset)
           row == IF id = 0 THEN NoRow ELSE tickets[id]
       IN req' = [req EXCEPT ![p] =
              IF id = 0 THEN Respond(@, 404, "ticket not found")
              ELSE IF OwnerUpToDate(row, @.owner)
                   THEN Respond([@ EXCEPT !.tid = id, !.row = row],
                                200, "owner up-to-date")
              ELSE [@ EXCEPT !.pc = "t_update", !.tid = id, !.row = row]]
    /\ UNCHANGED <<events, tickets, transactions, nreq, limit, admitted, wvars>>

\* the status column is not written
TransferredKeepsStatus(row, newOwner, now) ==
    [row EXCEPT !.owner_wallet_address = newOwner,
                !.last_transfer_date = now]

\* the whole row is rewritten, the used flag with its default
TransferredResetsUsed(row, newOwner, now) ==
    [row EXCEPT !.owner_wallet_address = newOwner, !.status = "transferred",
                !.last_transfer_date = now, !.is_used = FALSE]

\* the columns POST /transfer-update writes
Transferred(row, newOwner, now) ==
    [row EXCEPT !.owner_wallet_address = newOwner, !.status = "transferred",
                !.last_transfer_date = now]

\* update tickets set owner_wallet_address, status, last_transfer_date
TransferUpdate(p, now) ==
    /\ req[p].pc = "t_update"
    /\ tickets' = [tickets EXCEPT ![req[p].tid] =
                      Transferred(@, req[p].owner, now)]
    /\ req' = [req EXCEPT ![p] = Respond(@, 200, "owner updated")]
    /\ UNCHANGED <<events, transactions, nreq, limit, admitted, wvars>>

TransferStep(p) ==
    \/ \E i \in TransferInputs : TransferReceive(p, i[1], i[2], i[3])
    \/ TransferRead(p)
    \/ \E now \in Times : TransferUpdate(p, now)

\* ------------------------------- POST /events/:eventId/purchase-initiate
PurchaseReceive(p, e, w, q) ==
    /\ Free(p)
    /\ nreq < limit
    /\ nreq' = nreq + 1
    /\ LET r == [IdleReq EXCEPT !.op = "purchase", !.eventId = e,
                                !.owner = w, !.qty = q, !.pre = Snapshot]
       IN req' = [req EXCEPT ![p] =
              IF w = None THEN Respond(r, 400, "wallet required")
              ELSE IF q <= 0 THEN Respond(r, 400, "quantity")
              ELSE [r EXCEPT !.pc = "i_read"]]
    /\ UNCHANGED <<events, tickets, transactions, limit, admitted, wvars>>

\* the pending transactions are taken off the available count
NotEnoughAfterPending(ev, q) ==
    ev.available_tickets - Len(transactions) < q

\* the last tickets cannot be bought
NotEnoughOffByOne(ev, q) == ev.available_tickets <= q

\* event.available_tickets < quantity
NotEnough(ev, q) == ev.available_tickets < q

\* select candy_machine_id, price_sol, available_tickets ... .single()
PurchaseRead(p) ==
    /\ req[p].pc = "i_read"
    /\ LET ev == ReadEvent(req[p].eventId)
       IN req' = [req EXCEPT ![p] =
              IF ~ev.found THEN Respond(@, 404, "event not found")
              ELSE IF NotEnough(ev, @.qty)
                   THEN Respond([@ EXCEPT !.ev = ev], 400, "not enough")
              ELSE [@ EXCEPT !.pc = "i_insert", !.ev = ev]]
    /\ UNCHANGED <<events, tickets, transactions, nreq, limit, admitted, wvars>>

\* the row is inserted as already successful
NewTransactionSuccessful(e, q) ==
    [event_id |-> e, amount |-> PriceSol(e) * q, status |-> "successful",
     solana_transaction_signature |-> None, ticket_id |-> 0]

\* the row purchase-initiate inserts
NewTransaction(e, q) ==
    [event_id |-> e, amount |-> PriceSol(e) * q, status |-> "pending",
     solana_transaction_signature |-> None, ticket_id |-> 0]

\* the tickets asked for are taken off the Event's counter
PurchaseInsertReserving(p) ==
    /\ req[p].pc = "i_insert"
    /\ transactions' = Append(transactions,
                              NewTransaction(req[p].eventId, req[p].qty))
    /\ events' = [events EXCEPT ![req[p].eventId].available_tickets =
                                    @ - req[p].qty]
    /\ req' = [req EXCEPT ![p] =
           Respond([@ EXCEPT !.newtid = Len(transactions) + 1],
                   200, "purchase initiated")]
    /\ UNCHANGED <<tickets, nreq, limit, admitted, wvars>>

\* insert into transactions
PurchaseInsert(p) ==
    /\ req[p].pc = "i_insert"
    /\ transactions' = Append(transactions,
                              NewTransaction(req[p].eventId, req[p].qty))
    /\ req' = [req EXCEPT ![p] =
           Respond([@ EXCEPT !.newtid = Len(transactions) + 1],
                   200, "purchase initiated")]
    /\ UNCHANGED <<events, tickets, nreq, limit, admitted, wvars>>

PurchaseStep(p) ==
    \/ \E i \in PurchaseInputs : PurchaseReceive(p, i[1], i[2], i[3])
    \/ PurchaseRead(p)
    \/ PurchaseInsert(p)

\* ------------------------------------------------------- specifications
Handler(p) ==
    \/ MintStep(p)
    \/ VerifyStep(p)
    \/ TransferStep(p)
    \/ PurchaseStep(p)
    \/ Reply(p)

\* serialized calls: one request at a time
Next == Handler(1)

Spec == Init /\ [][Next]_vars

\* serialized calls in which the store may refuse the transaction update of
\* mint-success
NextTxFail == Handler(1) \/ MintUpdateTransactionFail(1)

SpecTxFail == Init /\ [][NextTxFail]_vars

\* serialized calls of the ticket routes: tickets are recorded, transferred
\* and presented at the gate
NextGate == MintStep(1) \/ VerifyStep(1) \/ TransferStep(1) \/ Reply(1)

SpecGate == InitGate /\ [][NextGate]_vars

\* two mint-success requests interleave between their store operations
NextMintRace == \E p \in Procs : MintStep(p) \/ Reply(p)

SpecMintRace == InitRace /\ [][NextMintRace]_vars

\* two mint-success requests of RaceMintInputs interleave
NextMintPair ==
    \E p \in Procs :
        \/ \E i \in RaceMintInputs :
               MintReceive(p, i[1], i[2], i[3], i[4], i[5])
        \/ MintCheck(p)
        \/ MintEvent(p)
        \/ MintInsert(p)
        \/ MintUpdateEvent(p)
        \/ MintUpdateTransaction(p)
        \/ Reply(p)

SpecMintPair == InitRace /\ [][NextMintPair]_vars

\* two mint-success requests interleave and any store operation of either
\* may return an error
NextMintFaults ==
    \E p \in Procs :
        \/ \E i \in RaceMintInputs :
               MintReceive(p, i[1], i[2], i[3], i[4], i[5])
        \/ MintCheck(p)
        \/ MintEvent(p)
        \/ MintInsert(p)
        \/ MintUpdateEvent(p)
        \/ MintUpdateTransaction(p)
        \/ MintFail(p)
        \/ Reply(p)

SpecMintFaults == InitRace /\ [][NextMintFaults]_vars

\* two requests, purchase-initiate or mint-success, interleave between
\* their store operations
NextPurchaseRace ==
    \E p \in Procs :
        \/ PurchaseStep(p)
        \/ \E i \in RaceMintInputs :
               MintReceive(p, i[1], i[2], i[3], i[4], i[5])
        \/ MintCheck(p)
        \/ MintEvent(p)
        \/ MintInsert(p)
        \/ MintUpdateEvent(p)
        \/ MintUpdateTransaction(p)
        \/ Reply(p)

SpecPurchaseRace == InitRace /\ [][NextPurchaseRace]_vars

\* two verify requests interleave between their store and ledger operations
NextVerifyRace == \E p \in Procs : VerifyStep(p) \/ Reply(p)

SpecVerifyRace == InitSold /\ [][NextVerifyRace]_vars

\* ================================================================ claims
\* slot p holds a finished call of handler op, its response not yet sent
Done(p, op) == req[p].pc = "done" /\ req[p].op = op

\* a mint-success body with every required field
WellFormedMint(r) ==
    r.eventId # None /\ r.asset # None /\ r.owner # None /\ r.sig # None

\* the Ticket rows of Event e
TicketsOfEvent(tk, e) == {i \in 1..Len(tk) : tk[i].event_id = e}

\* C1: a well-formed recordMint call for an assetId that already has a
\* Ticket (the second of two calls run one after the other) answers 200 and
\* mutates nothing, whatever eventId, owner, signature or transactionId it
\* carries: there is still exactly one Ticket row for the assetId and the
\* counter of that Ticket's Event has been decremented once per Ticket row.
C1_MintIdempotent ==
    \A p \in Procs :
        (/\ Done(p, "mint")
         /\ WellFormedMint(req[p])
         /\ TicketsByAsset(req[p].pre.tickets, req[p].asset) # {})
        => /\ req[p].code = 200
           /\ tickets = req[p].pre.tickets
           /\ events = req[p].pre.events
           /\ transactions = req[p].pre.transactions
           /\ Cardinality(TicketsByAsset(tickets, req[p].asset)) = 1
           /\ LET e == tickets[SingleId(tickets, req[p].asset)].event_id
              IN events[e].available_tickets =
                     events[e].total_tickets
                         - Cardinality(TicketsOfEvent(tickets, e))

\* a repeated call that names another event, another owner and a pending
\* transaction has been answered
C1_Witness ==
    \E p \in Procs :
        /\ Done(p, "mint")
        /\ req[p].code = 200
        /\ req[p].tid # 0
        /\ tickets[req[p].tid].event_id # req[p].eventId
        /\ tickets[req[p].tid].owner_wallet_address # req[p].owner
        /\ req[p].txid \in 1..Len(transactions)

\* C2: at most one Ticket row per assetId in every state of interleaved
\* recordMint calls, and every well-formed call for a known Event, the one
\* that loses the race included, ends with a success response.
C2_UniqueUnderRace ==
    /\ \A a \in Assets : Cardinality(TicketsByAsset(tickets, a)) <= 1
    /\ \A p \in Procs :
           (/\ Done(p, "mint")
            /\ WellFormedMint(req[p])
            /\ req[p].eventId \in DOMAIN events)
           => req[p].code = 200

\* C3: a verifyAndConsume call started after one has succeeded for the
\* same assetId ends with 409, whatever owner it asserts, whatever the
\* ledger says and whatever calls were handled in between.
C3_MonotonicLatch ==
    \A p \in Procs :
        (Done(p, "verify") /\ req[p].wasAdmitted) => req[p].code = 409

\* a later verify asserting an owner was refused after a transfer had been
\* recorded for the admitted ticket
C3_Witness ==
    \E p \in Procs :
        /\ Done(p, "verify")
        /\ req[p].wasAdmitted
        /\ req[p].owner # None
        /\ req[p].code = 409
        /\ req[p].row.status = "transferred"

\* C4: once is_used is true for a Ticket row it is true in the next state,
\* whichever handler takes the step.
C4_UsedLatch ==
    [][\A i \in 1..Len(tickets) :
          tickets[i].is_used => (i <= Len(tickets') /\ tickets'[i].is_used)
      ]_vars

\* a used Ticket has been written again by transfer-update
C4_Witness ==
    \E i \in 1..Len(tickets) :
        /\ tickets[i].is_used
        /\ tickets[i].status = "transferred"
        /\ tickets[i].last_transfer_date # 0

\* C5: 0 <= available_tickets <= total_tickets for every Event after every
\* call of a serialized sequence of recordMint calls.
C5_CounterBound ==
    \A e \in DOMAIN events :
        /\ 0 <= events[e].available_tickets
        /\ events[e].available_tickets <= events[e].total_tickets

\* a verify call that found an unused Ticket and went on to the ledger
FoundUnused(p) ==
    Done(p, "verify") /\ req[p].tid # 0 /\ ~req[p].row.is_used

\* C6: for an existing, unused Ticket, a verifyAndConsume call whose live
\* on-chain owner differs from the stored owner and from the asserted owner
\* (when one is supplied) ends with 403 and leaves every Ticket as it was.
C6_OwnershipGate ==
    \A p \in Procs :
        (/\ FoundUnused(p)
         /\ req[p].live # req[p].row.owner_wallet_address
         /\ (req[p].owner # None => req[p].live # req[p].owner))
        => /\ req[p].code = 403
           /\ tickets = req[p].pre.tickets
           /\ ~tickets[req[p].tid].is_used

\* three different wallets: stored, asserted and live
C6_Witness ==
    \E p \in Procs :
        /\ FoundUnused(p)
        /\ req[p].owner \in Wallets
        /\ req[p].live \in Wallets
        /\ req[p].owner # req[p].row.owner_wallet_address
        /\ req[p].live # req[p].row.owner_wallet_address
        /\ req[p].live # req[p].owner
        /\ req[p].code = 403

\* the owner verifyAndConsume is said to compare the live owner with
ExpectedOwner(p) ==
    IF req[p].owner # None THEN req[p].owner
    ELSE req[p].row.owner_wallet_address

\* C7: for an existing, unused Ticket verifyAndConsume answers 200 and marks
\* the Ticket used exactly when the ledger names as owner the asserted owner
\* (when one is supplied) or else the stored owner; in every other case the
\* Ticket rows are unchanged.  So after a recorded transfer to walletZ a call
\* asserting walletX with live owner walletZ is refused with 403 and the
\* Ticket stays unused, although the stored owner is the live owner.
C7_AssertedOwnerChecked ==
    \A p \in Procs :
        FoundUnused(p)
        => /\ (req[p].code = 200) <=>
                  (req[p].rpc = "ok" /\ req[p].live = ExpectedOwner(p))
           /\ req[p].code = 200 =>
                  (tickets[req[p].tid].is_used
                      /\ tickets[req[p].tid].status = "used")
           /\ req[p].code # 200 =>
                  (req[p].code = 403 /\ tickets = req[p].pre.tickets)
           /\ (/\ req[p].row.status = "transferred"
               /\ req[p].row.owner_wallet_address = "wZ"
               /\ req[p].owner = "wX"
               /\ req[p].live = "wZ")
              => (req[p].code = 403 /\ ~tickets[req[p].tid].is_used)

\* recordTransfer(a, walletZ) then verifyAndConsume(a, walletX) while the
\* ledger names walletZ
C7_Witness ==
    \E p \in Procs :
        /\ FoundUnused(p)
        /\ req[p].row.status = "transferred"
        /\ req[p].row.owner_wallet_address = "wZ"
        /\ req[p].owner = "wX"
        /\ req[p].live = "wZ"
        /\ req[p].code = 403

\* C8: a recordTransfer call whose newOwner is the Ticket's stored owner
\* answers 200 and changes no field of any Ticket row.
C8_TransferIdempotent ==
    \A p \in Procs :
        (/\ Done(p, "transfer")
         /\ req[p].tid # 0
         /\ req[p].pre.tickets[req[p].tid].owner_wallet_address = req[p].owner)
        => /\ req[p].code = 200
           /\ tickets = req[p].pre.tickets
           /\ events = req[p].pre.events
           /\ transactions = req[p].pre.transactions

\* the second of two transfer-updates to the same new owner
C8_Witness ==
    \E p \in Procs :
        /\ Done(p, "transfer")
        /\ req[p].tid # 0
        /\ req[p].row.status = "transferred"
        /\ req[p].row.owner_wallet_address = req[p].owner
        /\ req[p].code = 200

\* the place of Ticket row i among the rows of its Event, in insertion order
Rank(tk, i) ==
    Cardinality({j \in 1..i : tk[j].event_id = tk[i].event_id})

\* a mint-success call is between its insert and its counter update
MidMint == \E p \in Procs : req[p].pc = "m_update"

\* C9: in serialized calls the k-th Ticket created for an Event of N tickets
\* (k <= N) has seat label "Ticket #k"; the call that creates it inserts it
\* with status purchased, the reported owner and the used flag false, and
\* leaves available_tickets = N - k; calls for a repeated assetId create no
\* row and leave the counter alone.
C9_SequentialNumbering ==
    /\ \A i \in 1..Len(tickets) :
           Rank(tickets, i) <= events[tickets[i].event_id].total_tickets
           => tickets[i].seat_info = <<"Ticket #", Rank(tickets, i)>>
    /\ ~MidMint =>
           \A e \in DOMAIN events :
               Cardinality(TicketsOfEvent(tickets, e))
                       <= events[e].total_tickets
               => events[e].available_tickets =
                      events[e].total_tickets
                          - Cardinality(TicketsOfEvent(tickets, e))
    /\ \A p \in Procs :
           (Done(p, "mint") /\ req[p].newtid # 0)
           => /\ req[p].newtid = Len(tickets)
              /\ Len(tickets) = Len(req[p].pre.tickets) + 1
              /\ tickets[req[p].newtid].nft_mint_address = req[p].asset
              /\ tickets[req[p].newtid].status = "purchased"
              /\ tickets[req[p].newtid].owner_wallet_address = req[p].owner
              /\ ~tickets[req[p].newtid].is_used
    /\ \A p \in Procs :
           (Done(p, "mint") /\ req[p].tid # 0)
           => (tickets = req[p].pre.tickets /\ events = req[p].pre.events)

\* the second Ticket of an Event of two tickets has just been recorded
C9_Witness ==
    \E p \in Procs :
        /\ Done(p, "mint")
        /\ req[p].newtid # 0
        /\ tickets[req[p].newtid].seat_info = <<"Ticket #", 2>>
        /\ events[req[p].eventId].total_tickets = 2
        /\ events[req[p].eventId].available_tickets = 0

\* C10: a well-formed recordMint call for an assetId without Ticket and an
\* eventId that names no Event ends with 404 and changes no Ticket, no Event
\* and no Transaction.
C10_UnknownEvent ==
    \A p \in Procs :
        (/\ Done(p, "mint")
         /\ WellFormedMint(req[p])
         /\ req[p].eventId \notin DOMAIN req[p].pre.events
         /\ TicketsByAsset(req[p].pre.tickets, req[p].asset) = {})
        => /\ req[p].code = 404
           /\ tickets = req[p].pre.tickets
           /\ events = req[p].pre.events
           /\ transactions = req[p].pre.transactions

\* the refused call named a pending Transaction, which is still pending
C10_Witness ==
    \E p \in Procs :
        /\ Done(p, "mint")
        /\ req[p].code = 404
        /\ req[p].txid \in 1..Len(transactions)
        /\ transactions[req[p].txid].status = "pending"

\* a mint-success call that has inserted a Ticket and named a Transaction
CreatedWithTx(p) ==
    Done(p, "mint") /\ req[p].newtid # 0 /\ req[p].txid # 0

\* C11: a recordMint call that creates a Ticket and carries a transactionId
\* answers 200 with the Ticket inserted and the counter written; the named
\* Transaction, if it exists, is successful, holds the signature and is
\* linked to the new Ticket, unless its update failed, and then the
\* Transactions are as before while Ticket and counter are kept.
C11_TransactionSettled ==
    \A p \in Procs :
        CreatedWithTx(p)
        => /\ req[p].code = 200
           /\ Len(tickets) = Len(req[p].pre.tickets) + 1
           /\ tickets[req[p].newtid].nft_mint_address = req[p].asset
           /\ events[req[p].eventId].available_tickets =
                  req[p].pre.events[req[p].eventId].available_tickets - 1
           /\ Len(transactions) = Len(req[p].pre.transactions)
           /\ (req[p].fault = None /\ req[p].txid \in 1..Len(transactions))
              => /\ transactions[req[p].txid].status = "successful"
                 /\ transactions[req[p].txid].solana_transaction_signature
                        = req[p].sig
                 /\ transactions[req[p].txid].ticket_id = req[p].newtid
           /\ req[p].fault = "tx_update"
              => transactions = req[p].pre.transactions
           /\ \A i \in 1..Len(transactions) :
                  i # req[p].txid
                  => transactions[i] = req[p].pre.transactions[i]

\* the update of an existing pending Transaction failed and the call still
\* answered 200 with its Ticket recorded
C11_Witness ==
    \E p \in Procs :
        /\ CreatedWithTx(p)
        /\ req[p].fault = "tx_update"
        /\ req[p].code = 200
        /\ req[p].txid \in 1..Len(transactions)
        /\ transactions[req[p].txid].status = "pending"
        /\ tickets[req[p].newtid].nft_mint_address = req[p].asset
\* every successful Transaction is linked to a Ticket row that exists
SuccessfulLinked ==
    \A i \in 1..Len(transactions) :
        transactions[i].status = "successful"
        => transactions[i].ticket_id \in 1..Len(tickets)

\* rows are inserted pending, stay in the table and change status only
\* from pending to successful
StatusForward ==
    /\ Len(transactions') >= Len(transactions)
    /\ \A i \in 1..Len(transactions') :
           IF i <= Len(transactions)
           THEN \/ transactions'[i].status = transactions[i].status
                \/ /\ transactions[i].status = "pending"
                   /\ transactions'[i].status = "successful"
           ELSE transactions'[i].status = "pending"

\* C12: every Transaction is created pending, its status only ever changes
\* from pending to successful, and in every state a successful Transaction
\* is linked to an existing Ticket row.
C12_TransactionLifecycle == []SuccessfulLinked /\ [][StatusForward]_vars

\* a purchase was initiated and its Transaction settled by a recorded mint
C12_Witness ==
    \E i \in 1..Len(transactions) :
        /\ transactions[i].status = "successful"
        /\ transactions[i].ticket_id \in 1..Len(tickets)
        /\ transactions[i].solana_transaction_signature # None
\* a purchase-initiate call that names a wallet
PurchaseDone(p) == Done(p, "purchase") /\ req[p].owner # None

\* C13: initiatePurchase appends exactly one pending Transaction of amount
\* price * quantity when the Event exists, quantity >= 1 and
\* available_tickets >= quantity, and answers 200; it leaves the
\* Transactions as they were and answers 404 for an unknown Event, 400 for
\* quantity <= 0 and 400 for available_tickets < quantity.
C13_PurchaseInitiate ==
    \A p \in Procs :
        PurchaseDone(p)
        => LET e == req[p].eventId
               q == req[p].qty
               known == e \in DOMAIN req[p].pre.events
               enough == known /\ req[p].pre.events[e].available_tickets >= q
           IN /\ (q >= 1 /\ enough)
                 => /\ req[p].code = 200
                    /\ Len(transactions) = Len(req[p].pre.transactions) + 1
                    /\ SubSeq(transactions, 1, Len(req[p].pre.transactions))
                           = req[p].pre.transactions
                    /\ transactions[Len(transactions)].status = "pending"
                    /\ transactions[Len(transactions)].event_id = e
                    /\ transactions[Len(transactions)].amount
                           = (IF e = "e1" THEN 2 ELSE 3) * q
                    /\ req[p].newtid = Len(transactions)
              /\ (q >= 1 /\ ~known)
                 => (req[p].code = 404
                        /\ transactions = req[p].pre.transactions)
              /\ q <= 0
                 => (req[p].code = 400
                        /\ transactions = req[p].pre.transactions)
              /\ (q >= 1 /\ known /\ ~enough)
                 => (req[p].code = 400
                        /\ transactions = req[p].pre.transactions)

\* the last two tickets of an Event were asked for and a pending Transaction
\* of twice the price was created
C13_Witness ==
    \E p \in Procs :
        /\ PurchaseDone(p)
        /\ req[p].qty = 2
        /\ req[p].code = 200
        /\ req[p].pre.events[req[p].eventId].available_tickets = 2
        /\ transactions[req[p].newtid].amount = 4
        /\ transactions[req[p].newtid].status = "pending"
\* a transfer-update body with every required field
WellFormedTransfer(r) == r.asset # None /\ r.owner # None /\ r.sig # None

\* C14: recordTransfer for an assetId without Ticket answers 404 and creates
\* no Ticket; for a Ticket whose stored owner differs from newOwner it
\* answers 200, sets the owner to newOwner and the status to transferred,
\* and changes no other Ticket, no Event and no Transaction.
C14_TransferEffect ==
    \A p \in Procs :
        (Done(p, "transfer") /\ WellFormedTransfer(req[p]))
        => LET ids == TicketsByAsset(req[p].pre.tickets, req[p].asset)
           IN /\ ids = {}
                 => (req[p].code = 404 /\ tickets = req[p].pre.tickets)
              /\ \A i \in ids :
                     req[p].pre.tickets[i].owner_wallet_address # req[p].owner
                     => /\ req[p].code = 200
                        /\ tickets[i].owner_wallet_address = req[p].owner
                        /\ tickets[i].status = "transferred"
                        /\ Len(tickets) = Len(req[p].pre.tickets)
                        /\ \A j \in 1..Len(tickets) :
                               j # i => tickets[j] = req[p].pre.tickets[j]
              /\ events = req[p].pre.events
              /\ transactions = req[p].pre.transactions

\* one of two recorded Tickets has changed hands
C14_Witness ==
    \E p \in Procs :
        /\ Done(p, "transfer")
        /\ req[p].code = 200
        /\ req[p].tid # 0
        /\ Len(tickets) = 2
        /\ req[p].row.owner_wallet_address # req[p].owner
        /\ tickets[req[p].tid].owner_wallet_address = req[p].owner
        /\ tickets[req[p].tid].status = "transferred"
\* C15: verifyAndConsume answers 404 for an assetId without Ticket and 409
\* for a Ticket already used, both without asking the ledger; 403 is only
\* answered for an existing, unused Ticket after the ledger was asked; and
\* after 404, 409 or 403 every Ticket row is as it was.
C15_VerifyOrder ==
    \A p \in Procs :
        (Done(p, "verify") /\ req[p].asset # None)
        => LET ids == TicketsByAsset(req[p].pre.tickets, req[p].asset)
           IN /\ ids = {} => (req[p].code = 404 /\ req[p].rpc = None)
              /\ (\E i \in ids : req[p].pre.tickets[i].is_used)
                 => (req[p].code = 409 /\ req[p].rpc = None)
              /\ req[p].code = 403
                 => /\ req[p].rpc # None
                    /\ \E i \in ids : ~req[p].pre.tickets[i].is_used
              /\ req[p].code \in {403, 404, 409}
                 => tickets = req[p].pre.tickets

\* a used Ticket was presented with an owner other than the stored one and
\* was refused with 409, the ledger not having been asked
C15_Witness ==
    \E p \in Procs :
        /\ Done(p, "verify")
        /\ req[p].code = 409
        /\ req[p].rpc = None
        /\ req[p].owner # None
        /\ req[p].owner # req[p].row.owner_wallet_address
\* C16: when the ledger's ownership lookup itself fails during
\* verifyAndConsume, the call is answered with a 5xx response, not with 403,
\* and the Ticket is not marked used.
C16_LookupFailureIsUpstream ==
    \A p \in Procs :
        (Done(p, "verify") /\ req[p].rpc = "error")
        => /\ req[p].code >= 500
           /\ tickets = req[p].pre.tickets
\* the step is the counter update of a mint-success call
MintWritesCounter ==
    \E p \in Procs : req[p].op = "mint" /\ req[p].pc = "m_update"
                        /\ req'[p].pc # "m_update"

\* C19: a step that changes an Event row is the counter update of
\* recordMint, so initiatePurchase, recordTransfer and verifyAndConsume
\* leave every Event row unchanged; and no step changes the set of Events
\* or an Event's total_tickets.
C19_EventFrame ==
    [][/\ events' # events => MintWritesCounter
       /\ DOMAIN events' = DOMAIN events
       /\ \A e \in DOMAIN events :
              events'[e].total_tickets = events[e].total_tickets]_vars

\* a purchase was accepted for an Event whose counter a recorded mint had
\* taken down before
C19_Witness ==
    \E p \in Procs :
        /\ Done(p, "purchase")
        /\ req[p].code = 200
        /\ events[req[p].eventId].available_tickets
               < events[req[p].eventId].total_tickets
        /\ events = req[p].pre.events
\* request r lacks a field its handler requires
LacksRequired(r) ==
    \/ r.op = "mint" /\ (r.eventId = None \/ r.asset = None
                            \/ r.owner = None \/ r.sig = None)
    \/ r.op = "transfer" /\ (r.asset = None \/ r.owner = None
                                \/ r.sig = None)
    \/ r.op = "verify" /\ r.asset = None
    \/ r.op = "purchase" /\ r.owner = None

\* C20: a request that lacks a required field is answered with 400 in the
\* step that receives it, before any store read or write: no Ticket, Event
\* or Transaction changes and nothing has been read into the handler.
C20_InvalidInput ==
    [][\A p \in Procs :
          (req[p].pc = "idle" /\ req'[p].pc # "idle" /\ LacksRequired(req'[p]))
          => /\ req'[p].pc = "done"
             /\ req'[p].code = 400
             /\ req'[p].tid = 0
             /\ req'[p].ev = NoEvent
             /\ tickets' = tickets
             /\ events' = events
             /\ transactions' = transactions]_vars

\* a mint-success body without signature was refused while the asset it
\* names had no Ticket and its Event was known
C20_Witness ==
    \E p \in Procs :
        /\ Done(p, "mint")
        /\ req[p].sig = None
        /\ req[p].eventId \in DOMAIN events
        /\ req[p].asset \in Assets
        /\ TicketsByAsset(tickets, req[p].asset) = {}
        /\ req[p].code = 400
\* ------------------------------------------- listeners/solanaListener.js
\* Program ids an instruction can be addressed to: the Candy Machine V3
\* program and any other program.
CandyProgram == "cndy"

Machines == {"m1", "m2"}

UnknownMachine == "m0"

\* candy_machine_id of the events of InitStore.
CandyMachineOf(e) == IF e = "e1" THEN "m1" ELSE "m2"

\* instruction.accounts: [0] the mint, [1] the candy machine, [3] the owner.
InstrFull == [program |-> CandyProgram, accounts |-> <<"a1", "m1", "x", "wX">>]

InstrShort == [program |-> CandyProgram, accounts |-> <<"a1", "m1">>]

InstrOther == [program |-> "other", accounts |-> <<"a2", "m1", "x", "wY">>]

InstrUnknownMachine ==
    [program |-> CandyProgram, accounts |-> <<"a1", UnknownMachine, "x", "wX">>]

InstrLists == {<<>>, <<InstrFull>>, <<InstrShort>>, <<InstrOther>>,
               <<InstrOther, InstrFull>>, <<InstrUnknownMachine>>}

\* What connection.getParsedTransaction(signature) can give: a throw, null,
\* a transaction whose meta.err is set, or a committed transaction.
TxOutcomes ==
    {[kind |-> k, instrs |-> <<>>] : k \in {"throw", "null", "err"}}
        \cup {[kind |-> "ok", instrs |-> l] : l \in InstrLists}

\* What the two backend calls of the handler can do.
HttpOutcomes == {"ok", "get_error", "post_error"}

\* The messages the socket can deliver: unparsable text, or JSON with or
\* without params.result.value, logs (with or without the mint marker) and
\* a signature.
Notifications ==
    {n \in [parsable : BOOLEAN, hasValue : BOOLEAN,
            logs : {None, "other", "mint"}, sig : Signatures \cup {None}] :
        (~n.parsable) => (~n.hasValue /\ n.logs = None /\ n.sig = None)}

\* ws.onopen: the subscription request is sent on the open socket.
SocketOpen ==
    /\ sock = "connecting"
    /\ sock' = "open"
    /\ UNCHANGED <<events, tickets, transactions, req, nreq, limit, admitted,
                   timers, wat, losses>>

\* the error handler schedules a restart as the close handler does
SocketErrorRestarts ==
    /\ sock \in {"connecting", "open"}
    /\ sock' = "errored"
    /\ timers' = timers + 1
    /\ UNCHANGED <<events, tickets, transactions, req, nreq, limit, admitted,
                   wat, losses>>

\* ws.onerror: the error is logged, nothing else; the socket library closes
\* a socket that has emitted an error.
SocketError ==
    /\ sock \in {"connecting", "open"}
    /\ sock' = "errored"
    /\ UNCHANGED <<events, tickets, transactions, req, nreq, limit, admitted,
                   timers, wat, losses>>

ScheduledNever(t) == t

\* setTimeout(() => startSolanaListener(), 5000) in ws.onclose.
Scheduled(t) == t + 1

\* ws.onclose: one restart is scheduled.
SocketClose ==
    /\ sock \in {"connecting", "open", "errored"}
    /\ sock' = "closed"
    /\ timers' = Scheduled(timers)
    /\ losses' = IF losses < MaxLosses THEN losses + 1 ELSE losses
    /\ UNCHANGED <<events, tickets, transactions, req, nreq, limit, admitted,
                   wat>>

\* The timer fires: startSolanaListener() assigns a new socket to ws.
ReconnectTimer ==
    /\ timers > 0
    /\ timers' = timers - 1
    /\ sock' = "connecting"
    /\ UNCHANGED <<events, tickets, transactions, req, nreq, limit, admitted,
                   wat, losses>>

WatDone(outcome) == [wat EXCEPT !.pc = "done", !.outcome = outcome]

\* The tests of ws.onmessage before the transaction is fetched.
MintDetected(n) == n.hasValue /\ n.logs = "mint" /\ n.sig # None

\* ws.onmessage up to the await of getParsedTransaction. JSON.parse stands
\* outside the try block: unparsable text rejects the handler's promise.
WatcherReceive(n) ==
    /\ sock = "open"
    /\ wat.pc = "idle"
    /\ wat' = IF ~n.parsable
                THEN [WatDone("rejected") EXCEPT !.n = n]
                ELSE IF MintDetected(n)
                       THEN [wat EXCEPT !.pc = "w_tx", !.n = n]
                       ELSE [WatDone("ignored") EXCEPT !.n = n]
    /\ UNCHANGED <<events, tickets, transactions, req, nreq, limit, admitted,
                   sock, timers, losses>>

\* candyMachineProgramId is a const of the ws.onopen closure; ws.onmessage
\* is a sibling closure and the module declares no such name.
CandyMachineProgramIdInScope == FALSE

ProgramMatchesAny(ins) == [thrown |-> FALSE, match |-> TRUE]

\* instruction.programId.toBase58() === candyMachineProgramId.toBase58():
\* evaluating a name that is not in scope throws a ReferenceError.
ProgramMatches(ins) ==
    [thrown |-> ~CandyMachineProgramIdInScope,
     match  |-> ins.program = CandyProgram]

NoAccounts == [thrown |-> FALSE, mint |-> None, owner |-> None, cm |-> None]

Account(ins, i) == IF Len(ins.accounts) >= i THEN ins.accounts[i] ELSE None

RECURSIVE WalkInstructions(_, _, _)
\* The for loop over transaction.transaction.message.instructions.
WalkInstructions(instrs, i, acc) ==
    IF i > Len(instrs) THEN acc
    ELSE LET m == ProgramMatches(instrs[i]) IN
         IF m.thrown THEN [acc EXCEPT !.thrown = TRUE]
         ELSE IF m.match /\ Len(instrs[i].accounts) > 0
                THEN WalkInstructions(instrs, i + 1,
                        [acc EXCEPT !.mint  = Account(instrs[i], 1),
                                    !.owner = Account(instrs[i], 4),
                                    !.cm    = Account(instrs[i], 2)])
                ELSE WalkInstructions(instrs, i + 1, acc)

ExtractAccounts(instrs) == WalkInstructions(instrs, 1, NoAccounts)

\* GET /events?candyMachineId=...: the events with that candy machine.
EventsByMachine(cm) == {e \in DOMAIN events : CandyMachineOf(e) = cm}

\* ws.onmessage from the result of getParsedTransaction to its end: the
\* transaction test, the instruction walk, the event lookup and the POST
\* to /tickets/mint-success; every throw inside the try block is caught
\* and logged.
WatcherResolve(o, http) ==
    /\ wat.pc = "w_tx"
    /\ LET x  == ExtractAccounts(o.instrs)
           es == EventsByMachine(x.cm)
           w  == [wat EXCEPT !.tx = o, !.http = http]
       IN wat' =
            IF o.kind = "throw" THEN [w EXCEPT !.pc = "done", !.outcome = "tx_error"]
            ELSE IF o.kind # "ok" THEN [w EXCEPT !.pc = "done", !.outcome = "skipped"]
            ELSE IF x.thrown THEN [w EXCEPT !.pc = "done", !.outcome = "tx_error"]
            ELSE IF x.mint = None \/ x.owner = None \/ x.cm = None
                   THEN [w EXCEPT !.pc = "done", !.outcome = "incomplete"]
            ELSE IF http = "get_error"
                   THEN [w EXCEPT !.pc = "done", !.outcome = "tx_error"]
            ELSE IF es = {} THEN [w EXCEPT !.pc = "done", !.outcome = "no_event"]
            ELSE [w EXCEPT !.pc = "done",
                           !.posts = @ + 1,
                           !.body = [eventId |-> CHOOSE e \in es : TRUE,
                                     asset |-> x.mint, owner |-> x.owner,
                                     sig |-> wat.n.sig],
                           !.outcome = IF http = "post_error" THEN "tx_error"
                                       ELSE "notified"]
    /\ UNCHANGED <<events, tickets, transactions, req, nreq, limit, admitted,
                   sock, timers, losses>>

\* The handler returns; nothing of the message is kept.
WatcherReturn ==
    /\ wat.pc = "done"
    /\ wat' = [IdleWat EXCEPT !.prev = wat.outcome]
    /\ UNCHANGED <<events, tickets, transactions, req, nreq, limit, admitted,
                   sock, timers, losses>>

\* A message that is not JSON arrives: JSON.parse throws outside the try
\* block and the rejected promise of the onmessage call has no handler. A
\* Node.js that throws on unhandled rejections ends the process at once; one
\* that only warns lets the handler return (WatcherReceive, "rejected").
ProcessExit ==
    /\ sock = "open"
    /\ wat.pc = "idle"
    /\ sock' = "exited"
    /\ wat' = IdleWat
    /\ UNCHANGED <<events, tickets, transactions, req, nreq, limit, admitted,
                   timers, losses>>

NextWatcher ==
    \/ SocketOpen
    \/ SocketError
    \/ SocketClose
    \/ ReconnectTimer
    \/ \E n \in Notifications : WatcherReceive(n)
    \/ \E o \in TxOutcomes, http \in HttpOutcomes : WatcherResolve(o, http)
    \/ WatcherReturn
    \/ ProcessExit

\* The listener alone. A pending timer fires and a socket that has emitted
\* an error is closed; everything else is up to the network.
SpecWatcher ==
    /\ Init
    /\ [][NextWatcher]_vars
    /\ WF_vars(ReconnectTimer)
    /\ WF_vars(sock = "errored" /\ SocketClose)

\* The committed transaction carries an instruction of the Candy Machine
\* program naming mint, candy machine and owner, an event has that candy
\* machine, and the body sent is made of exactly these.
SentFromMintInstruction ==
    \E i \in 1..Len(wat.tx.instrs) :
        LET ins == wat.tx.instrs[i] IN
            /\ ins.program = CandyProgram
            /\ Len(ins.accounts) >= 4
            /\ \E e \in DOMAIN events :
                /\ CandyMachineOf(e) = ins.accounts[2]
                /\ wat.body = [eventId |-> e, asset |-> ins.accounts[1],
                               owner |-> ins.accounts[4], sig |-> wat.n.sig]

AllConditions ==
    /\ wat.n.parsable
    /\ MintDetected(wat.n)
    /\ wat.tx.kind = "ok"
    /\ SentFromMintInstruction

SentOnlyWhenAllHold ==
    /\ wat.posts <= 1
    /\ wat.posts = 1 => AllConditions
    /\ (wat.pc = "done" /\ ~AllConditions)
            => (wat.posts = 0 /\ wat.body = NoBody)

\* The transaction is fetched once and a finished handler keeps nothing of
\* its message.
HandledOnce ==
    /\ wat.pc = "w_tx" => wat'.pc = "done"
    /\ wat.pc = "done" => (wat'.pc = "idle" /\ wat'.posts = 0
                               /\ wat'.body = NoBody /\ wat'.tx = NoTx)

\* C17: handling one log notification sends at most one mint-success
\* request, and one is sent only if the notification has the mint marker and
\* a signature, the transaction resolved and committed without error, mint,
\* owner and candy machine were taken from its Candy Machine instruction and
\* an event with that candy machine was found; a handler that ends in any
\* other case has sent nothing, and it does not try again.
C17_WatcherNotifies == []SentOnlyWhenAllHold /\ [][HandledOnce]_wat

\* A notification with marker and signature whose transaction errored on
\* chain has been dropped.
C17_Witness ==
    /\ wat.pc = "done"
    /\ MintDetected(wat.n)
    /\ wat.tx.kind = "err"
    /\ wat.posts = 0
ConnectionLost == sock \in {"closed", "errored"}

\* C18: every loss of the listener's connection, a close or an error, is
\* eventually followed by startSolanaListener opening a new socket, however
\* many losses came before.
C18_Reconnects == ConnectionLost ~> (sock = "connecting")

\* A new socket has been opened after MaxLosses earlier closes.
C18_Witness == losses = MaxLosses /\ sock = "connecting" /\ timers = 0
\* C21: for every Event, total_tickets - available_tickets is at most the
\* number of Ticket rows of that Event, in every state of interleaved
\* recordMint calls whose store operations may fail.
C21_FailTowardTicket ==
    \A e \in DOMAIN events :
        events[e].total_tickets - events[e].available_tickets
            <= Cardinality(TicketsOfEvent(tickets, e))

\* a call whose insert was refused has been answered while another call's
\* Ticket of the same Event is recorded and counted
C21_Witness ==
    \E p \in Procs, e \in DOMAIN events :
        /\ Done(p, "mint")
        /\ req[p].fault = "insert"
        /\ req[p].eventId = e
        /\ req[p].code = 500
        /\ TicketsByAsset(tickets, req[p].asset) = {}
        /\ Cardinality(TicketsOfEvent(tickets, e)) = 1
        /\ events[e].total_tickets - events[e].available_tickets = 1
\* two finished calls that recorded different assetIds of one Event after
\* reading the same available_tickets
BothReadBeforeWrite(p, q) ==
    /\ Done(p, "mint") /\ Done(q, "mint")
    /\ req[p].newtid # 0 /\ req[q].newtid # 0
    /\ req[p].asset # req[q].asset
    /\ req[p].eventId = req[q].eventId
    /\ req[p].ev.available_tickets = req[q].ev.available_tickets

\* C22: when two recordMint calls for different assetIds of one Event both
\* read available_tickets before either writes it, both Tickets exist with
\* the same seat label and available_tickets ends lower by 1, not by 2.
C22_LostUpdate ==
    \A p, q \in Procs :
        BothReadBeforeWrite(p, q)
        => /\ tickets[req[p].newtid].nft_mint_address = req[p].asset
           /\ tickets[req[q].newtid].nft_mint_address = req[q].asset
           /\ tickets[req[p].newtid].seat_info
                  = tickets[req[q].newtid].seat_info
           /\ events[req[p].eventId].available_tickets
                  = req[p].ev.available_tickets - 1

\* the interleaving has happened on an Event created with two tickets: two
\* Tickets labelled "Ticket #1" and one ticket still counted as available
C22_Witness ==
    \E p, q \in Procs :
        /\ BothReadBeforeWrite(p, q)
        /\ req[p].code = 200 /\ req[q].code = 200
        /\ events[req[p].eventId].total_tickets = 2
        /\ events[req[p].eventId].available_tickets = 1
        /\ Cardinality(TicketsOfEvent(tickets, req[p].eventId)) = 2
        /\ tickets[req[p].newtid].seat_info = SeatLabel(1)
        /\ tickets[req[q].newtid].seat_info = SeatLabel(1)
\* a pending Transaction for q tickets of Event e was accepted before the
\* call in slot p arrived
AcceptedBefore(p, e, q) ==
    \E i \in 1..Len(req[p].pre.transactions) :
        /\ req[p].pre.transactions[i].event_id = e
        /\ req[p].pre.transactions[i].amount = PriceSol(e) * q
        /\ req[p].pre.transactions[i].status = "pending"

\* C23: a successful initiatePurchase leaves every Event and every Ticket
\* as they were and adds one pending Transaction; and as long as no
\* recordMint has recorded a Ticket of the Event, a later call for the same
\* quantity is accepted again.
C23_ReservesNothing ==
    \A p \in Procs :
        /\ (PurchaseDone(p) /\ req[p].code = 200)
           => /\ events = req[p].pre.events
              /\ tickets = req[p].pre.tickets
              /\ transactions =
                     Append(req[p].pre.transactions,
                            [event_id |-> req[p].eventId,
                             amount |-> PriceSol(req[p].eventId) * req[p].qty,
                             status |-> "pending",
                             solana_transaction_signature |-> None,
                             ticket_id |-> 0])
        /\ (/\ PurchaseDone(p)
            /\ req[p].qty >= 1
            /\ AcceptedBefore(p, req[p].eventId, req[p].qty)
            /\ TicketsOfEvent(tickets, req[p].eventId) = {})
           => req[p].code = 200

\* the only ticket of an Event has been promised a second time
C23_Witness ==
    \E p \in Procs :
        /\ PurchaseDone(p)
        /\ req[p].code = 200
        /\ req[p].qty = 1
        /\ AcceptedBefore(p, req[p].eventId, 1)
        /\ events[req[p].eventId].available_tickets = 1
        /\ Len(transactions) = 2
RECURSIVE PendingQuantity(_, _, _)
\* the tickets the pending Transactions 1..n of Event e were accepted for
PendingQuantity(tx, e, n) ==
    IF n = 0 THEN 0
    ELSE PendingQuantity(tx, e, n - 1)
            + (IF tx[n].event_id = e /\ tx[n].status = "pending"
               THEN tx[n].amount \div PriceSol(e) ELSE 0)

\* C24: initiatePurchase accepts a call exactly when the quantity asked for
\* is at most the available_tickets it read, whatever pending Transactions
\* exist; so two calls that both pass the check before a mint is recorded
\* are both accepted, and the quantities of the pending Transactions of one
\* Event can add up to more than its available_tickets.
C24_PurchaseRace ==
    \A p \in Procs :
        (PurchaseDone(p) /\ req[p].ev.found)
        => /\ (req[p].code = 200)
                  <=> (req[p].qty <= req[p].ev.available_tickets)
           /\ req[p].code = 200
                  => /\ transactions[req[p].newtid].event_id = req[p].eventId
                     /\ transactions[req[p].newtid].amount
                            = PriceSol(req[p].eventId) * req[p].qty

\* both calls read the counter before either inserted, no mint has been
\* recorded, and more tickets are promised than the Event has
C24_Witness ==
    \E p, q \in Procs :
        /\ p # q
        /\ PurchaseDone(p) /\ PurchaseDone(q)
        /\ req[p].code = 200 /\ req[q].code = 200
        /\ req[p].eventId = req[q].eventId
        /\ req[p].pre.transactions = <<>> /\ req[q].pre.transactions = <<>>
        /\ tickets = <<>>
        /\ PendingQuantity(transactions, req[p].eventId, Len(transactions))
               > events[req[p].eventId].available_tickets
\* how a handler ends when processing its notification failed
FailedOutcomes == {"rejected", "tx_error"}

\* the finished handler was given a mint notification with marker and
\* signature whose transaction committed with one Candy Machine instruction
\* naming mint, candy machine and owner, an Event has that candy machine
\* and the backend answers
ValidMintHandled ==
    /\ wat.pc = "done"
    /\ MintDetected(wat.n)
    /\ wat.tx = [kind |-> "ok", instrs |-> <<InstrFull>>]
    /\ wat.http = "ok"

\* C25: a notification whose processing fails leaves the subscription open,
\* and a valid mint notification that follows it on the same connection is
\* forwarded to mint-success.
C25_SurvivesFailures ==
    /\ sock # "exited"
    /\ (ValidMintHandled /\ wat.prev \in FailedOutcomes /\ losses = 0)
           => /\ wat.posts = 1
              /\ wat.body = [eventId |-> "e1", asset |-> "a1",
                             owner |-> "wX", sig |-> wat.n.sig]
\* C26: whenever a recordMint call that names an existing Transaction of its
\* Event has answered 200, that Transaction is successful and linked to the Ticket of
\* the call's assetId, also when a call without transactionId for the same
\* assetId was handled first.
C26_SettledOnSuccess ==
    \A p \in Procs :
        (/\ Done(p, "mint")
         /\ req[p].code = 200
         /\ req[p].txid \in 1..Len(req[p].pre.transactions)
         /\ req[p].pre.transactions[req[p].txid].event_id = req[p].eventId)
        => /\ transactions[req[p].txid].status = "successful"
           /\ transactions[req[p].txid].ticket_id
                  = SingleId(tickets, req[p].asset)
           /\ transactions[req[p].txid].ticket_id # 0
\* C27: no two verifyAndConsume calls for one assetId both answer 200, also
\* when they interleave between the read of is_used and the write of it.
C27_SingleAdmission ==
    \A p, q \in Procs :
        (/\ p # q
         /\ Done(p, "verify") /\ Done(q, "verify")
         /\ req[p].asset = req[q].asset)
        => ~(req[p].code = 200 /\ req[q].code = 200)
\* C28: for every Ticket, status = used exactly when is_used is true.
C28_StatusAgreesWithUsed ==
    \A i \in 1..Len(tickets) :
        (tickets[i].status = "used") <=> tickets[i].is_used
\* C29: a Transaction that is linked to a Ticket belongs to the Event of
\* that Ticket.
C29_LinkedSameEvent ==
    \A i \in 1..Len(transactions) :
        transactions[i].ticket_id # 0
        => /\ transactions[i].ticket_id \in 1..Len(tickets)
           /\ tickets[transactions[i].ticket_id].event_id
                  = transactions[i].event_id
\* sockets of the listener that have not been closed
OpenSockets == IF sock \in {"connecting", "open", "errored"} THEN 1 ELSE 0

\* C30: the listener's open sockets and pending reconnect timers number at
\* most one together; a timer is pending only while the socket it replaces
\* is closed.
C30_OneSubscription ==
    /\ OpenSockets + timers <= 1
    /\ timers > 0 => sock = "closed"

\* a socket opened by a restart has emitted an error and no timer is pending
C30_Witness == losses >= 1 /\ sock = "errored" /\ timers = 0
====
